---- MODULE Spec2Model ----
(***************************************************************************)
(* Verification model of HFT-System: the limit order book                  *)
(* (OrderBook.cpp), the mean-reversion strategy (Strategy.cpp) and the     *)
(* session dispatcher (Handler.cpp) with the FIXObject message they share. *)
(*                                                                         *)
(* Doubles are modelled as integers.  Order prices are whole numbers; the  *)
(* strategy's prices and running mean are fixed-point numbers counted in   *)
(* 1/Unit.                                                                 *)
(***************************************************************************)
EXTENDS Integers, Sequences, FiniteSets, TLC

\* ------------------------------------------------------------------------
\* Bounds of the model
\* ------------------------------------------------------------------------
MaxOrderId == 2
MaxOps == 3

\* The orders add_order is called with
OrderIds == 1..MaxOrderId
Qtys == {3, 5}
Prices == {99, 100, 101}
Sides == {"Buy", "Sell"}

VARIABLES
    bids,         \* OrderBook::bids, the levels in map order (price descending)
    asks,         \* OrderBook::asks, the levels in map order (price ascending)
    order_index,  \* OrderBook::order_index, order id -> Order
    live,         \* history: the orders added and not cancelled since, order -> how many
    last_op,      \* history: the last call made on the book
    ops           \* history: number of calls made on the book

VARIABLES
    mean,         \* Strategy::mean, in 1/Unit
    count,        \* Strategy::count
    quote,        \* the book the strategy reads: the bid and ask of the last update
    signal,       \* the FIXObject the last generate_signal call returned
    calls         \* history: number of generate_signal calls made

VARIABLES
    h_in,         \* the FIXObject last handed to Handler::handle_message
    h_out         \* the FIXObject it returned

VARIABLES
    c_msg,        \* the FIXObject handed to to_string
    c_order,      \* the order in which its unordered_map is iterated
    c_wire,       \* the string to_string returned, or the string handed to parse
    c_parsed,     \* the FIXObject Parser::parse returned
    c_op          \* history: the codec call made last

VARIABLES
    position_,    \* PnLTracker::position_
    cash_,        \* PnLTracker::cash_
    last_fill,    \* history: the arguments of the last on_fill call
    fills         \* history: number of on_fill calls made

VARIABLES
    pc,           \* where System::start stands
    running,      \* System::running
    sys_price,    \* System::price, in 1/Unit
    rx_data,      \* data, the string receive_data returned in this iteration
    iter,         \* history: number of loop iterations started
    last_send,    \* history: what the last step of the loop sent
    io_failed,    \* history: a receive or a send has failed
    stop_seen     \* stop() has written running while the loop of start() ran

bookVars == <<bids, asks, order_index, live, last_op, ops>>

stratVars == <<mean, count, quote, signal, calls>>

handlerVars == <<h_in, h_out>>

codecVars == <<c_msg, c_order, c_wire, c_parsed, c_op>>

pnlVars == <<position_, cash_, last_fill, fills>>

sysVars == <<pc, running, sys_price, rx_data, iter, last_send, io_failed, stop_seen>>

vars == <<bookVars, stratVars, handlerVars, codecVars, pnlVars, sysVars>>

\* ------------------------------------------------------------------------
\* std::map<double, int, Compare> as the sequence of its entries in
\* iteration order
\* ------------------------------------------------------------------------
\* std::greater<double>, the comparator of OrderBook::bids
GreaterDouble == "greater"

\* std::less<double>, the default comparator of OrderBook::asks
LessDouble == "less"

\* The comparator applied: does a come before b in the map
Compare(comp, a, b) == IF comp = GreaterDouble THEN a > b ELSE a < b

\* map::find: the position of the entry with this key, 0 for end()
MapFind(m, p) ==
    IF \E i \in 1..Len(m) : m[i].price = p
    THEN CHOOSE i \in 1..Len(m) : m[i].price = p
    ELSE 0

\* map::operator[]: the entry is created with a value-initialised int when the
\* key is absent, at the place the comparator gives it
MapSubscript(m, p, comp) ==
    IF MapFind(m, p) # 0
    THEN m
    ELSE LET k == Cardinality({i \in 1..Len(m) : Compare(comp, m[i].price, p)})
         IN  SubSeq(m, 1, k) \o <<[price |-> p, qty |-> 0]>> \o SubSeq(m, k + 1, Len(m))

\* m[p] += d
MapAddTo(m, p, d, comp) ==
    LET m2 == MapSubscript(m, p, comp)
    IN  [i \in 1..Len(m2) |->
            IF m2[i].price = p
            THEN [price |-> p, qty |-> m2[i].qty + d]
            ELSE m2[i]]

\* ------------------------------------------------------------------------
\* OrderBook
\* ------------------------------------------------------------------------
\* unordered_map::operator[] followed by assignment
IndexPut(idx, id, order) ==
    [i \in DOMAIN idx \cup {id} |-> IF i = id THEN order ELSE idx[i]]

\* add_order matching a crossing order against the best opposite level
\* instead of resting it
add_order_matching(book, order) ==
    [order_index |-> IndexPut(book.order_index, order.order_id, order),
     bids |-> IF order.side = "Buy"
              THEN IF Len(book.asks) > 0 /\ order.price >= book.asks[1].price
                   THEN book.bids
                   ELSE MapAddTo(book.bids, order.price, order.quantity, GreaterDouble)
              ELSE IF Len(book.bids) > 0 /\ order.price <= book.bids[1].price
                   THEN MapAddTo(book.bids, book.bids[1].price, 0 - order.quantity,
                                 GreaterDouble)
                   ELSE book.bids,
     asks |-> IF order.side = "Sell"
              THEN IF Len(book.bids) > 0 /\ order.price <= book.bids[1].price
                   THEN book.asks
                   ELSE MapAddTo(book.asks, order.price, order.quantity, LessDouble)
              ELSE IF Len(book.asks) > 0 /\ order.price >= book.asks[1].price
                   THEN MapAddTo(book.asks, book.asks[1].price, 0 - order.quantity,
                                 LessDouble)
                   ELSE book.asks]

\* OrderBook::add_order
add_order(book, order) ==
    [order_index |-> IndexPut(book.order_index, order.order_id, order),
     bids |-> IF order.side = "Buy"
              THEN MapAddTo(book.bids, order.price, order.quantity, GreaterDouble)
              ELSE book.bids,
     asks |-> IF order.side = "Sell"
              THEN MapAddTo(book.asks, order.price, order.quantity, LessDouble)
              ELSE book.asks]

\* cancel_order written with order_index[order_id] in place of find: an unknown
\* id gets a value-initialised Order (quantity 0, price 0.0, Side::Buy)
cancel_order_subscript(book, order_id) ==
    LET idx == IF order_id \in DOMAIN book.order_index
               THEN book.order_index
               ELSE IndexPut(book.order_index, order_id,
                             [order_id |-> 0, quantity |-> 0, price |-> 0, side |-> "Buy"])
        ord == idx[order_id]
    IN  [order_index |-> idx,
         bids |-> IF ord.side = "Buy"
                  THEN MapAddTo(book.bids, ord.price, 0 - ord.quantity, GreaterDouble)
                  ELSE book.bids,
         asks |-> IF ord.side = "Sell"
                  THEN MapAddTo(book.asks, ord.price, 0 - ord.quantity, LessDouble)
                  ELSE book.asks]

\* cancel_order erasing a level whose aggregate has reached zero
cancel_order_prune(book, order_id) ==
    IF order_id \notin DOMAIN book.order_index
    THEN book
    ELSE LET ord == book.order_index[order_id]
             Populated(level) == level.qty # 0
         IN  [order_index |-> book.order_index,
              bids |-> IF ord.side = "Buy"
                       THEN SelectSeq(MapAddTo(book.bids, ord.price, 0 - ord.quantity,
                                               GreaterDouble), Populated)
                       ELSE book.bids,
              asks |-> IF ord.side = "Sell"
                       THEN SelectSeq(MapAddTo(book.asks, ord.price, 0 - ord.quantity,
                                               LessDouble), Populated)
                       ELSE book.asks]

\* OrderBook::cancel_order
cancel_order(book, order_id) ==
    IF order_id \notin DOMAIN book.order_index
    THEN book
    ELSE LET ord == book.order_index[order_id]
         IN  [order_index |-> book.order_index,
              bids |-> IF ord.side = "Buy"
                       THEN MapAddTo(book.bids, ord.price, 0 - ord.quantity, GreaterDouble)
                       ELSE book.bids,
              asks |-> IF ord.side = "Sell"
                       THEN MapAddTo(book.asks, ord.price, 0 - ord.quantity, LessDouble)
                       ELSE book.asks]

\* get_best_bid written with rbegin() in place of begin()
get_best_bid_rbegin(b) == IF Len(b) = 0 THEN 0 ELSE b[Len(b)].price

\* OrderBook::get_best_bid
get_best_bid(b) == IF Len(b) = 0 THEN 0 ELSE b[1].price

\* OrderBook::get_best_ask
get_best_ask(a) == IF Len(a) = 0 THEN 0 ELSE a[1].price

\* The book as one value
Book == [bids |-> bids, asks |-> asks, order_index |-> order_index]

Orders ==
    [order_id : OrderIds, quantity : Qtys, price : Prices, side : Sides]

\* One more copy of an order in a bag of orders
BagAdd(b, o) ==
    [x \in DOMAIN b \cup {o} |->
        IF x = o THEN (IF o \in DOMAIN b THEN b[o] ELSE 0) + 1 ELSE b[x]]

NoOp == [op |-> "none", id |-> 0, found |-> FALSE]

\* OrderBook::OrderBook
InitBook ==
    /\ bids = <<>>
    /\ asks = <<>>
    /\ order_index = <<>>
    /\ live = <<>>
    /\ last_op = NoOp
    /\ ops = 0

\* A call of add_order
AddOrder ==
    /\ ops < MaxOps
    /\ \E order \in Orders :
          LET b == add_order(Book, order)
          IN  /\ bids' = b.bids
              /\ asks' = b.asks
              /\ order_index' = b.order_index
              /\ live' = BagAdd(live, order)
              /\ last_op' = [op |-> "add", id |-> order.order_id,
                             found |-> order.order_id \in DOMAIN order_index]
    /\ ops' = ops + 1

\* A call of cancel_order
CancelOrder ==
    /\ ops < MaxOps
    /\ \E id \in OrderIds :
          LET b == cancel_order(Book, id)
          IN  /\ bids' = b.bids
              /\ asks' = b.asks
              /\ order_index' = b.order_index
              /\ live' = [o \in {x \in DOMAIN live : x.order_id # id} |-> live[o]]
              /\ last_op' = [op |-> "cancel", id |-> id,
                             found |-> id \in DOMAIN order_index]
    /\ ops' = ops + 1

\* ------------------------------------------------------------------------
\* FIXObject: the fields map as a function from tag to value
\* ------------------------------------------------------------------------
\* FIXObject::FIXObject
EmptyMsg == [t \in {} |-> ""]

\* FIXObject::set_field
set_field(m, tag, value) ==
    [t \in DOMAIN m \cup {tag} |-> IF t = tag THEN value ELSE m[t]]

\* FIXObject::get_field
get_field(m, tag) == IF tag \in DOMAIN m THEN m[tag] ELSE ""

\* ------------------------------------------------------------------------
\* Doubles of the strategy as fixed-point numbers, and std::to_string(double)
\* ------------------------------------------------------------------------
Unit == 10 * 10

DigitChar == <<"0", "1", "2", "3", "4", "5", "6", "7", "8", "9">>

RECURSIVE NatStr(_)
NatStr(n) ==
    IF n < 10 THEN DigitChar[n + 1]
    ELSE NatStr(n \div 10) \o DigitChar[(n % 10) + 1]

\* std::to_string(double): "%f", six digits after the point
to_string_double(v) ==
    LET a == IF v < 0 THEN 0 - v ELSE v
        f == a % Unit
    IN  (IF v < 0 THEN "-" ELSE "") \o NatStr(a \div Unit) \o "."
        \o DigitChar[(f \div 10) + 1] \o DigitChar[(f % 10) + 1] \o "0000"

\* ------------------------------------------------------------------------
\* The book surface the strategy reads (update / get_midprice / get_bid /
\* get_ask)
\* ------------------------------------------------------------------------
update(bid, ask) == [bid |-> bid, ask |-> ask]

get_bid(ob) == ob.bid

get_ask(ob) == ob.ask

get_midprice(ob) == (ob.bid + ob.ask) \div 2

\* ------------------------------------------------------------------------
\* Strategy
\* ------------------------------------------------------------------------
\* Strategy::window
StrategyWindow == 20

\* Calls of generate_signal the model follows
MaxCalls == 22

\* Prices System::start may hold when it evaluates the strategy, in 1/Unit
StratPrices == {80 * Unit, 88 * Unit, 100 * Unit}

\* mean + alpha * (mid - mean) with alpha = 0.1
ema(m, mid) == m + ((mid - m) \div 10)

\* The order intent generate_signal builds
OrderIntent(side, price) ==
    set_field(set_field(set_field(set_field(set_field(EmptyMsg,
        35, "D"), 55, "TEST"), 54, side), 38, "10"), 44, to_string_double(price))

\* generate_signal with the warm-up test off by one (count + 1 < window)
generate_signal_short_warmup(st, ob) ==
    LET mid == get_midprice(ob)
    IN  IF st.count + 1 < StrategyWindow
        THEN [mean |-> ema(st.mean, mid), count |-> st.count + 1, ret |-> EmptyMsg]
        ELSE IF mid * 1000 < st.mean * 995
        THEN [mean |-> st.mean, count |-> st.count, ret |-> OrderIntent("1", get_ask(ob))]
        ELSE IF mid * 1000 > st.mean * 1005
        THEN [mean |-> st.mean, count |-> st.count, ret |-> OrderIntent("2", get_bid(ob))]
        ELSE [mean |-> st.mean, count |-> st.count, ret |-> EmptyMsg]

\* generate_signal pricing the Buy intent at the bid
generate_signal_buy_at_bid(st, ob) ==
    LET mid == get_midprice(ob)
    IN  IF st.count < StrategyWindow
        THEN [mean |-> ema(st.mean, mid), count |-> st.count + 1, ret |-> EmptyMsg]
        ELSE IF mid * 1000 < st.mean * 995
        THEN [mean |-> st.mean, count |-> st.count, ret |-> OrderIntent("1", get_bid(ob))]
        ELSE IF mid * 1000 > st.mean * 1005
        THEN [mean |-> st.mean, count |-> st.count, ret |-> OrderIntent("2", get_bid(ob))]
        ELSE [mean |-> st.mean, count |-> st.count, ret |-> EmptyMsg]

\* Strategy::generate_signal: the strategy's fields after the call and the
\* FIXObject returned
generate_signal(st, ob) ==
    LET mid == get_midprice(ob)
    IN  IF st.count < StrategyWindow
        THEN [mean |-> ema(st.mean, mid), count |-> st.count + 1, ret |-> EmptyMsg]
        ELSE IF mid * 1000 < st.mean * 995
        THEN [mean |-> st.mean, count |-> st.count, ret |-> OrderIntent("1", get_ask(ob))]
        ELSE IF mid * 1000 > st.mean * 1005
        THEN [mean |-> st.mean, count |-> st.count, ret |-> OrderIntent("2", get_bid(ob))]
        ELSE [mean |-> st.mean, count |-> st.count, ret |-> EmptyMsg]

\* Strategy::Strategy, and the book before its first update
InitStrategy ==
    /\ mean = 0
    /\ count = 0
    /\ quote = update(0, 0)
    /\ signal = EmptyMsg
    /\ calls = 0

\* One evaluation of System::start: the book is updated to price -/+ 1.0 and
\* the strategy is asked for a signal
GenerateSignal ==
    /\ calls < MaxCalls
    /\ \E price \in StratPrices :
          LET ob == update(price - Unit, price + Unit)
              r == generate_signal([mean |-> mean, count |-> count], ob)
          IN  /\ quote' = ob
              /\ mean' = r.mean
              /\ count' = r.count
              /\ signal' = r.ret
    /\ calls' = calls + 1

\* ------------------------------------------------------------------------
\* Handler
\* ------------------------------------------------------------------------
\* handle_message answering a message of unknown type with a reject (35=3)
handle_message_reject_unknown(fix_obj) ==
    LET msg_type == get_field(fix_obj, 35)
    IN  IF msg_type = "0" THEN set_field(EmptyMsg, 35, "0")
        ELSE IF msg_type = "1"
        THEN set_field(set_field(EmptyMsg, 35, "0"), 112, get_field(fix_obj, 112))
        ELSE IF msg_type = "A"
        THEN set_field(set_field(set_field(EmptyMsg, 35, "A"), 98, "0"), 108, "30")
        ELSE IF msg_type = "D"
        THEN set_field(set_field(set_field(set_field(set_field(set_field(set_field(
                 EmptyMsg, 35, "8"), 150, "0"), 39, "0"),
                 11, get_field(fix_obj, 11)), 55, get_field(fix_obj, 55)),
                 54, get_field(fix_obj, 54)), 38, get_field(fix_obj, 38))
        ELSE set_field(EmptyMsg, 35, "3")

\* handle_message answering a TestRequest without copying field 112
handle_message_no_echo(fix_obj) ==
    LET msg_type == get_field(fix_obj, 35)
    IN  IF msg_type = "0" THEN set_field(EmptyMsg, 35, "0")
        ELSE IF msg_type = "1"
        THEN set_field(set_field(EmptyMsg, 35, "0"), 112, "")
        ELSE IF msg_type = "A"
        THEN set_field(set_field(set_field(EmptyMsg, 35, "A"), 98, "0"), 108, "30")
        ELSE IF msg_type = "D"
        THEN set_field(set_field(set_field(set_field(set_field(set_field(set_field(
                 EmptyMsg, 35, "8"), 150, "0"), 39, "0"),
                 11, get_field(fix_obj, 11)), 55, get_field(fix_obj, 55)),
                 54, get_field(fix_obj, 54)), 38, get_field(fix_obj, 38))
        ELSE EmptyMsg

\* Handler::handle_message
handle_message(fix_obj) ==
    LET msg_type == get_field(fix_obj, 35)
    IN  IF msg_type = "0" THEN set_field(EmptyMsg, 35, "0")
        ELSE IF msg_type = "1"
        THEN set_field(set_field(EmptyMsg, 35, "0"), 112, get_field(fix_obj, 112))
        ELSE IF msg_type = "A"
        THEN set_field(set_field(set_field(EmptyMsg, 35, "A"), 98, "0"), 108, "30")
        ELSE IF msg_type = "D"
        THEN set_field(set_field(set_field(set_field(set_field(set_field(set_field(
                 EmptyMsg, 35, "8"), 150, "0"), 39, "0"),
                 11, get_field(fix_obj, 11)), 55, get_field(fix_obj, 55)),
                 54, get_field(fix_obj, 54)), 38, get_field(fix_obj, 38))
        ELSE EmptyMsg

\* Values an inbound message may carry under each tag
InboundValues ==
    [t \in {35, 112, 11, 55, 54, 38} |->
        CASE t = 35  -> {"0", "1", "A", "D", "8", "Z"}
          [] t = 112 -> {"T1", "T2"}
          [] t = 11  -> {"ORD1"}
          [] t = 55  -> {"TEST"}
          [] t = 54  -> {"1", "2"}
          [] t = 38  -> {"10"}]

InboundTags == <<35, 112, 11, 55, 54, 38>>

\* The inbound messages: each tag absent or set to one of its values
RECURSIVE MessagesOver(_)
MessagesOver(k) ==
    IF k = 0 THEN {EmptyMsg}
    ELSE LET prev == MessagesOver(k - 1)
         IN  prev \cup {set_field(m, InboundTags[k], v) :
                           m \in prev, v \in InboundValues[InboundTags[k]]}

InboundMessages == MessagesOver(Len(InboundTags))

\* No message handled yet
InitHandler ==
    /\ h_in = EmptyMsg
    /\ h_out = EmptyMsg

\* A call of handle_message
HandleMessage ==
    \E m \in InboundMessages :
        /\ h_in' = m
        /\ h_out' = handle_message(m)

\* ------------------------------------------------------------------------
\* Codec: FIXObject::to_string and Parser::parse over strings
\* ------------------------------------------------------------------------
\* The delimiter byte 0x01, written as a printable character
SOH == "|"

\* The i-th character of a string
CharAt(s, i) == SubSeq(s, i, i)

\* std::string::find(c): the first position of c, 0 for npos
Find(s, c) ==
    IF \E i \in 1..Len(s) : CharAt(s, i) = c
    THEN CHOOSE i \in 1..Len(s) :
            CharAt(s, i) = c /\ \A j \in 1..(i - 1) : CharAt(s, j) # c
    ELSE 0

\* std::to_string(int)
to_string_int(n) == IF n < 0 THEN "-" \o NatStr(0 - n) ELSE NatStr(n)

\* FIXObject::to_string, the unordered_map iterated in the given order
RECURSIVE to_string(_, _)
to_string(m, order) ==
    IF order = <<>> THEN ""
    ELSE to_string_int(Head(order)) \o "=" \o m[Head(order)] \o SOH
         \o to_string(m, Tail(order))

\* The orders in which an unordered_map with these keys may be iterated
IterationOrders(keys) ==
    {q \in [1..Cardinality(keys) -> keys] :
        \A i, j \in 1..Cardinality(keys) : i # j => q[i] # q[j]}

\* The successive results of std::getline(stream, segment, SOH)
RECURSIVE Segments(_)
Segments(data) ==
    IF data = "" THEN <<>>
    ELSE LET k == Find(data, SOH)
         IN  IF k = 0 THEN <<data>>
             ELSE <<SubSeq(data, 1, k - 1)>> \o Segments(SubSeq(data, k + 1, Len(data)))

IsDigit(c) == \E d \in 1..10 : DigitChar[d] = c

DigitValue(c) == (CHOOSE d \in 1..10 : DigitChar[d] = c) - 1

\* The value of a run of digits, -1 once it passes INT_MAX
RECURSIVE DigitsValue(_, _)
DigitsValue(ds, acc) ==
    IF ds = "" THEN acc
    ELSE LET d == DigitValue(Head(ds))
         IN  IF acc > (2147483647 - d) \div 10 THEN -1
             ELSE DigitsValue(Tail(ds), acc * 10 + d)

\* std::stoi: leading white space is skipped, a sign is read, then the digits
\* up to the first other character; the rest of the string is ignored
stoi(str) ==
    LET spaces == IF \E i \in 1..Len(str) : CharAt(str, i) # " "
                  THEN (CHOOSE i \in 1..Len(str) :
                           CharAt(str, i) # " "
                           /\ \A j \in 1..(i - 1) : CharAt(str, j) = " ") - 1
                  ELSE Len(str)
        rest == SubSeq(str, spaces + 1, Len(str))
        signed == rest # "" /\ Head(rest) \in {"+", "-"}
        neg == rest # "" /\ Head(rest) = "-"
        body == IF signed THEN Tail(rest) ELSE rest
        n == IF \E i \in 1..Len(body) : ~ IsDigit(CharAt(body, i))
             THEN (CHOOSE i \in 1..Len(body) :
                      ~ IsDigit(CharAt(body, i))
                      /\ \A j \in 1..(i - 1) : IsDigit(CharAt(body, j))) - 1
             ELSE Len(body)
        v == DigitsValue(SubSeq(body, 1, n), 0)
    IN  IF n = 0 THEN [ok |-> FALSE, value |-> 0, what |-> "invalid_argument"]
        ELSE IF v = -1
        THEN [ok |-> FALSE, value |-> 0, what |-> "out_of_range"]
        ELSE [ok |-> TRUE, value |-> IF neg THEN 0 - v ELSE v, what |-> ""]

\* The loop body of parse taking the value from the '=' on
parse_field_value_from_eq(fix_obj, segmented_string) ==
    IF segmented_string = "" THEN fix_obj
    ELSE LET eq_pos == Find(segmented_string, "=")
         IN  IF eq_pos = 0 THEN fix_obj
             ELSE LET tag_string == SubSeq(segmented_string, 1, eq_pos - 1)
                      value == SubSeq(segmented_string, eq_pos, Len(segmented_string))
                      tag == stoi(tag_string)
                  IN  IF tag.ok THEN set_field(fix_obj, tag.value, value) ELSE fix_obj

\* The loop body of Parser::parse: one segment
parse_field(fix_obj, segmented_string) ==
    IF segmented_string = "" THEN fix_obj
    ELSE LET eq_pos == Find(segmented_string, "=")
         IN  IF eq_pos = 0 THEN fix_obj
             ELSE LET tag_string == SubSeq(segmented_string, 1, eq_pos - 1)
                      value == SubSeq(segmented_string, eq_pos + 1, Len(segmented_string))
                      tag == stoi(tag_string)
                  IN  IF tag.ok THEN set_field(fix_obj, tag.value, value) ELSE fix_obj

RECURSIVE parse_fields(_, _)
parse_fields(fix_obj, segs) ==
    IF segs = <<>> THEN fix_obj
    ELSE parse_fields(parse_field(fix_obj, Head(segs)), Tail(segs))

\* Parser::parse
parse(data) == parse_fields(EmptyMsg, Segments(data))

\* Fields a message handed to to_string may hold
MaxFields == 3

CodecTags == {-7, 0, 35, 112}

CodecValues == {"A", "10", "", "A=B", "A|B"}

\* The messages over these tags and values with at most MaxFields fields
CodecMessages ==
    UNION {[tags -> CodecValues] :
              tags \in {t \in SUBSET CodecTags : Cardinality(t) <= MaxFields}}

\* Segments a received string may be made of
WireSegments ==
    {"35=A", "8=B", "35=C", "35x=D", " 8=E", "-8=F", "+8=G", "x35=H", "=I", "35",
     "", "8=5=J", "8=", "007=K"}

\* Received strings of up to k segments, each followed by the delimiter
RECURSIVE WireInputs(_)
WireInputs(k) ==
    IF k = 0 THEN {""}
    ELSE LET prev == WireInputs(k - 1)
         IN  prev \cup {w \o seg \o SOH : w \in prev, seg \in WireSegments}

\* No codec call made yet
InitCodec ==
    /\ c_msg = EmptyMsg
    /\ c_order = <<>>
    /\ c_wire = ""
    /\ c_parsed = EmptyMsg
    /\ c_op = "none"

\* to_string of a message, then parse of the result
EncodeDecode ==
    /\ c_op = "none"
    /\ \E m \in CodecMessages :
        \E order \in IterationOrders(DOMAIN m) :
            /\ c_msg' = m
            /\ c_order' = order
            /\ c_wire' = to_string(m, order)
            /\ c_parsed' = parse(to_string(m, order))
            /\ c_op' = "encode_decode"

\* parse of a received string, with or without the last delimiter
Decode ==
    /\ c_op = "none"
    /\ \E w \in WireInputs(MaxFields) :
        \E data \in {w, SubSeq(w, 1, Len(w) - 1)} :
            /\ c_msg' = EmptyMsg
            /\ c_order' = <<>>
            /\ c_wire' = data
            /\ c_parsed' = parse(data)
            /\ c_op' = "decode"

\* ------------------------------------------------------------------------
\* PnLTracker
\* ------------------------------------------------------------------------
\* on_fill without the quantity test
on_fill_no_guard(pnl, side, qty, price) ==
    IF side = "1"
    THEN [position_ |-> pnl.position_ + qty, cash_ |-> pnl.cash_ - qty * price]
    ELSE IF side = "2"
    THEN [position_ |-> pnl.position_ - qty, cash_ |-> pnl.cash_ + qty * price]
    ELSE pnl

\* PnLTracker::on_fill
on_fill(pnl, side, qty, price) ==
    IF qty <= 0 THEN pnl
    ELSE IF side = "1"
    THEN [position_ |-> pnl.position_ + qty, cash_ |-> pnl.cash_ - qty * price]
    ELSE IF side = "2"
    THEN [position_ |-> pnl.position_ - qty, cash_ |-> pnl.cash_ + qty * price]
    ELSE pnl

\* on_fill calls the model follows
MaxFills == 3

FillSides == {"1", "2", "3"}

FillQtys == {-2, 0, 1, 2}

FillPrices == {99, 101}

NoFill == [side |-> "", qty |-> 0, price |-> 0]

\* PnLTracker::PnLTracker
InitPnL ==
    /\ position_ = 0
    /\ cash_ = 0
    /\ last_fill = NoFill
    /\ fills = 0

\* A call of on_fill
OnFill ==
    /\ fills < MaxFills
    /\ \E side \in FillSides, qty \in FillQtys, price \in FillPrices :
          LET r == on_fill([position_ |-> position_, cash_ |-> cash_], side, qty, price)
          IN  /\ position_' = r.position_
              /\ cash_' = r.cash_
              /\ last_fill' = [side |-> side, qty |-> qty, price |-> price]
    /\ fills' = fills + 1

\* ------------------------------------------------------------------------
\* System: the run loop
\* ------------------------------------------------------------------------
\* Loop iterations the model follows
MaxIters == 22

\* How far, in whole prices, the random walk is followed from its start
MaxDrift == 1

\* System::price after construction
InitialPrice == 100 * Unit

\* The steps std::uniform_int_distribution<int> d(-1, 1) may give
PriceSteps == {-1, 0, 1}

\* Strings receive_data may return; the first is the empty datagram
Datagrams ==
    {"", "35=0|", "35=A|", "35=Z|", "55=TEST|", "garbage"}

\* The message types handle_message answers
KnownTypes == {"0", "1", "A", "D"}

NoSend == [by |-> "none", ok |-> TRUE]

\* What the loop condition of System::start may read from running, a plain
\* bool (System.h): the stored value or, once stop() has written the flag
\* from another thread while the loop runs (a data race), still the value
\* true that start() stored
loop_condition(r, raced) == IF raced THEN {r, TRUE} ELSE {r}

\* send_data swallowing a failed sendto
send_data_swallow(ok, next) == next

\* NetworkSender::send_data: the caller goes on at next, or the
\* runtime_error of a failed sendto leaves System::start
send_data(ok, next) == IF ok THEN next ELSE "fault"

\* NetworkReceiver::receive_data: the caller goes on at next, or the
\* runtime_error of a failed recvfrom leaves System::start
receive_data(ok, next) == IF ok THEN next ELSE "fault"

\* What response.to_string() may be for a datagram: the datagram is parsed,
\* handled, and the response encoded in any iteration order of its fields
response_strings(dgram) ==
    LET fix_obj == parse(dgram)
        response == handle_message(fix_obj)
    IN  {to_string(response, order) : order \in IterationOrders(DOMAIN response)}

\* response_strings, tabulated over the datagrams
ResponseStrings == [dgram \in Datagrams |-> response_strings(dgram)]

otherVars == <<bookVars, codecVars, pnlVars>>

\* System::System
InitSystem ==
    /\ pc = "idle"
    /\ running = FALSE
    /\ sys_price = InitialPrice
    /\ rx_data = ""
    /\ iter = 0
    /\ last_send = NoSend
    /\ io_failed = FALSE
    /\ stop_seen = FALSE

\* System::start is entered: running = true
Start ==
    /\ pc = "idle"
    /\ running' = TRUE
    /\ pc' = "top"
    /\ UNCHANGED <<sys_price, rx_data, iter, last_send, io_failed, stop_seen>>
    /\ UNCHANGED <<stratVars, handlerVars, otherVars>>

\* while (running)
LoopTest ==
    /\ pc = "top"
    /\ \E seen \in loop_condition(running, stop_seen) :
          IF seen
          THEN /\ iter < MaxIters
               /\ pc' = "eval"
               /\ iter' = iter + 1
          ELSE /\ pc' = "returned"
               /\ iter' = iter
    /\ UNCHANGED <<running, sys_price, rx_data, last_send, io_failed, stop_seen>>
    /\ UNCHANGED <<stratVars, handlerVars, otherVars>>

\* The price step, the book update, the strategy evaluation and the sending
\* of its order.  The string sent is not kept; the execution report built
\* after the send goes to handle_message, whose answer is dropped, and
\* changes no state.
Evaluate ==
    /\ pc = "eval"
    /\ \E d \in PriceSteps :
          LET p == sys_price + d * Unit
              ob == update(p - Unit, p + Unit)
              r == generate_signal([mean |-> mean, count |-> count], ob)
          IN  /\ p - InitialPrice <= MaxDrift * Unit
              /\ InitialPrice - p <= MaxDrift * Unit
              /\ sys_price' = p
              /\ quote' = ob
              /\ mean' = r.mean
              /\ count' = r.count
              /\ signal' = r.ret
              /\ calls' = calls + 1
              /\ IF get_field(r.ret, 35) = "D"
                 THEN \E ok \in BOOLEAN :
                         /\ pc' = send_data(ok, "recv")
                         /\ last_send' = [by |-> "strategy", ok |-> ok]
                         /\ io_failed' = ~ ok
                 ELSE /\ pc' = "recv"
                      /\ last_send' = NoSend
                      /\ io_failed' = io_failed
    /\ UNCHANGED <<running, rx_data, iter, stop_seen>>
    /\ UNCHANGED <<handlerVars, otherVars>>

\* receiver->receive_data() comes back with a datagram or fails
Receive ==
    /\ pc = "recv"
    /\ \/ \E dgram \in Datagrams :
             /\ rx_data' = dgram
             /\ pc' = receive_data(TRUE, "handle")
             /\ io_failed' = io_failed
       \/ /\ rx_data' = rx_data
          /\ pc' = receive_data(FALSE, "handle")
          /\ io_failed' = TRUE
    /\ last_send' = NoSend
    /\ UNCHANGED <<running, sys_price, iter, stop_seen>>
    /\ UNCHANGED <<stratVars, handlerVars, otherVars>>

\* The datagram is parsed and handled and the response, unless empty, sent
HandleData ==
    /\ pc = "handle"
    /\ IF rx_data # ""
       THEN \E wire \in ResponseStrings[rx_data] :
               IF wire # ""
               THEN \E ok \in BOOLEAN :
                       /\ pc' = send_data(ok, "sleep")
                       /\ last_send' = [by |-> "response", ok |-> ok]
                       /\ io_failed' = ~ ok
               ELSE /\ pc' = "sleep"
                    /\ last_send' = NoSend
                    /\ io_failed' = io_failed
       ELSE /\ pc' = "sleep"
            /\ last_send' = NoSend
            /\ io_failed' = io_failed
    /\ rx_data' = rx_data
    /\ UNCHANGED <<running, sys_price, iter, stop_seen>>
    /\ UNCHANGED <<stratVars, handlerVars, otherVars>>

\* std::this_thread::sleep_for, then the end of the loop body, where the
\* local data is destroyed, and back to the loop condition
Sleep ==
    /\ pc = "sleep"
    /\ pc' = "top"
    /\ rx_data' = ""
    /\ last_send' = NoSend
    /\ UNCHANGED <<running, sys_price, iter, io_failed, stop_seen>>
    /\ UNCHANGED <<stratVars, handlerVars, otherVars>>

\* System::stop, called by another thread
Stop ==
    /\ running' = FALSE
    /\ stop_seen' = (stop_seen \/ pc \in {"top", "eval", "recv", "handle", "sleep"})
    /\ UNCHANGED <<pc, sys_price, rx_data, iter, last_send, io_failed>>
    /\ UNCHANGED <<stratVars, handlerVars, otherVars>>

\* ------------------------------------------------------------------------
\* Specifications
\* ------------------------------------------------------------------------
Init ==
    InitBook /\ InitStrategy /\ InitHandler /\ InitCodec /\ InitPnL /\ InitSystem

NextBook ==
    (AddOrder \/ CancelOrder)
    /\ UNCHANGED <<stratVars, handlerVars, codecVars, pnlVars, sysVars>>

NextStrategy ==
    GenerateSignal /\ UNCHANGED <<bookVars, handlerVars, codecVars, pnlVars, sysVars>>

NextHandler ==
    HandleMessage /\ UNCHANGED <<bookVars, stratVars, codecVars, pnlVars, sysVars>>

NextCodec ==
    (EncodeDecode \/ Decode)
    /\ UNCHANGED <<bookVars, stratVars, handlerVars, pnlVars, sysVars>>

NextSystem == Start \/ LoopTest \/ Evaluate \/ Receive \/ HandleData \/ Sleep \/ Stop

NextPnL ==
    OnFill /\ UNCHANGED <<bookVars, stratVars, handlerVars, codecVars, sysVars>>

\* The order book under add_order and cancel_order calls
Spec == Init /\ [][NextBook]_vars

\* The strategy under successive evaluations
SpecStrategy == Init /\ [][NextStrategy]_vars

\* The dispatcher under successive inbound messages
SpecHandler == Init /\ [][NextHandler]_vars

\* The codec under encode/decode round trips and decodes of raw input
SpecCodec == Init /\ [][NextCodec]_vars

\* The PnL tracker under successive fills
SpecPnL == Init /\ [][NextPnL]_vars

\* The run loop with its transport and a caller of stop()
SpecSystem == Init /\ [][NextSystem]_vars

\* The run loop whose thread keeps running: every step of the loop that can
\* be taken is taken, and a pending receive comes back
SpecSystemLive ==
    /\ Init
    /\ [][NextSystem]_vars
    /\ WF_vars(LoopTest \/ Evaluate \/ Receive \/ HandleData \/ Sleep)

\* ------------------------------------------------------------------------
\* Properties of the order book
\* ------------------------------------------------------------------------
\* The aggregate stored at a price, 0 when the side has no such level
LevelQty(m, p) == IF MapFind(m, p) = 0 THEN 0 ELSE m[MapFind(m, p)].qty

\* What an order contributes to the aggregate of a side at a price
Contribution(order, side, p) ==
    IF order.side = side /\ order.price = p THEN order.quantity ELSE 0

RECURSIVE SumContribution(_, _, _)
SumContribution(os, side, p) ==
    IF os = {} THEN 0
    ELSE LET o == CHOOSE x \in os : TRUE
         IN  live[o] * Contribution(o, side, p) + SumContribution(os \ {o}, side, p)

\* The sum of the quantities of the live orders of a side at a price
LiveSum(side, p) == SumContribution(DOMAIN live, side, p)

\* C1: for every side and price, the aggregate stored at the level equals the
\* sum of the quantities of the orders added and not yet cancelled there.
C1_AggregateIsLiveSum ==
    \A p \in Prices :
        /\ LevelQty(bids, p) = LiveSum("Buy", p)
        /\ LevelQty(asks, p) = LiveSum("Sell", p)

\* C2: a cancel_order(id) made right after a cancel_order(id) of the same id
\* leaves every bid and ask aggregate as the first call left it.
C2_CancelIdempotent ==
    [][(/\ last_op.op = "cancel"
        /\ last_op'.op = "cancel"
        /\ last_op'.id = last_op.id)
       => (bids' = bids /\ asks' = asks)]_vars

\* C3: add_order under the id of a resting order replaces that order: at every
\* level the old order's quantity leaves the aggregate and the new order's
\* quantity enters it.
C3_AddOverwritesContribution ==
    [][(/\ last_op'.op = "add"
        /\ ops' = ops + 1
        /\ last_op'.found
        /\ order_index[last_op'.id] \in DOMAIN live)
       => LET old == order_index[last_op'.id]
              new == order_index'[last_op'.id]
          IN  \A p \in Prices :
                /\ LevelQty(bids', p) = LevelQty(bids, p)
                       - Contribution(old, "Buy", p) + Contribution(new, "Buy", p)
                /\ LevelQty(asks', p) = LevelQty(asks, p)
                       - Contribution(old, "Sell", p) + Contribution(new, "Sell", p)]_vars

\* C4: no bid or ask level holds an aggregate below zero.
C4_NoNegativeLevel ==
    /\ \A i \in 1..Len(bids) : bids[i].qty >= 0
    /\ \A i \in 1..Len(asks) : asks[i].qty >= 0

\* C5: cancel_order of an id that was never added changes neither the bid
\* levels, nor the ask levels, nor the order index.
C5_CancelUnknownIsNoOp ==
    [][(/\ last_op'.op = "cancel"
        /\ ops' = ops + 1
        /\ ~ last_op'.found)
       => (bids' = bids /\ asks' = asks /\ order_index' = order_index)]_vars

\* An unknown id has just been cancelled on a book that holds levels on both
\* sides
C5_Witness ==
    /\ last_op.op = "cancel"
    /\ ~ last_op.found
    /\ Len(bids) > 0
    /\ Len(asks) > 0

RECURSIVE SetMax(_)
SetMax(S) ==
    LET x == CHOOSE y \in S : TRUE
    IN  IF S = {x} THEN x
        ELSE LET r == SetMax(S \ {x}) IN IF x > r THEN x ELSE r

RECURSIVE SetMin(_)
SetMin(S) ==
    LET x == CHOOSE y \in S : TRUE
    IN  IF S = {x} THEN x
        ELSE LET r == SetMin(S \ {x}) IN IF x < r THEN x ELSE r

LevelPrices(m) == {m[i].price : i \in 1..Len(m)}

\* C6: get_best_bid is the highest price among the bid levels and
\* get_best_ask the lowest price among the ask levels; a side without any
\* level gives 0.
C6_BestQuotes ==
    /\ get_best_bid(bids) = IF LevelPrices(bids) = {} THEN 0 ELSE SetMax(LevelPrices(bids))
    /\ get_best_ask(asks) = IF LevelPrices(asks) = {} THEN 0 ELSE SetMin(LevelPrices(asks))

\* The ask side holds a level and the bid side several, the best bid level
\* created last, by the order just added
C6_Witness ==
    /\ Len(bids) >= 2
    /\ Len(asks) >= 1
    /\ last_op.op = "add"
    /\ order_index[last_op.id].side = "Buy"
    /\ order_index[last_op.id].price = get_best_bid(bids)
    /\ order_index[last_op.id].quantity = bids[1].qty

\* ------------------------------------------------------------------------
\* Properties of the strategy
\* ------------------------------------------------------------------------
\* C7: each of the first 20 generate_signal calls returns an empty message.
C7_WarmupSilent ==
    calls \in 1..20 => signal = EmptyMsg

\* The 20th call has returned while the midprice is more than 0.5% above the
\* mean
C7_Witness ==
    /\ calls = 20
    /\ signal = EmptyMsg
    /\ get_midprice(quote) * 1000 > mean * 1005

\* C8: every generate_signal call moves the mean to
\* mean + smoothing_factor * (mid - mean).
C8_MeanUpdatedEveryCall ==
    [][calls' = calls + 1 => mean' = ema(mean, get_midprice(quote'))]_vars

\* C9: a call after warm-up returns a Buy order priced at the best ask when
\* mid < mean * 0.995, a Sell order priced at the best bid when
\* mid > mean * 1.005, and an empty message otherwise.
C9_SignalRule ==
    [][(calls' = calls + 1 /\ calls >= 20)
       => LET mid == get_midprice(quote')
          IN  IF mid * 1000 < mean * 995
              THEN /\ get_field(signal', 35) = "D"
                   /\ get_field(signal', 54) = "1"
                   /\ get_field(signal', 44) = to_string_double(get_ask(quote'))
              ELSE IF mid * 1000 > mean * 1005
              THEN /\ get_field(signal', 35) = "D"
                   /\ get_field(signal', 54) = "2"
                   /\ get_field(signal', 44) = to_string_double(get_bid(quote'))
              ELSE signal' = EmptyMsg]_vars

\* A call after warm-up has returned a Buy order
C9_Witness ==
    /\ calls > 20
    /\ get_field(signal, 35) = "D"
    /\ get_field(signal, 54) = "1"
    /\ get_field(signal, 44) = "81.000000"

\* ------------------------------------------------------------------------
\* Properties of the dispatcher
\* ------------------------------------------------------------------------
\* C10: a Heartbeat is answered with 35=0, a TestRequest with 35=0 and the
\* inbound field 112, a Logon with 35=A, 98=0 and 108=30, whatever was
\* handled before.
C10_AdminTable ==
    LET t == get_field(h_in, 35)
    IN  /\ t = "0" => get_field(h_out, 35) = "0"
        /\ t = "1" => /\ get_field(h_out, 35) = "0"
                      /\ 112 \in DOMAIN h_out
                      /\ h_out[112] = get_field(h_in, 112)
        /\ t = "A" => /\ get_field(h_out, 35) = "A"
                      /\ get_field(h_out, 98) = "0"
                      /\ get_field(h_out, 108) = "30"

\* A TestRequest carrying an id has been answered
C10_Witness ==
    /\ get_field(h_in, 35) = "1"
    /\ get_field(h_in, 112) = "T2"
    /\ get_field(h_out, 112) = "T2"

\* C11: a NewOrderSingle is answered with an ExecutionReport (35=8) that
\* carries the inbound symbol, side and quantity and the order status filled
\* (39=2).
C11_ExecutionReportFilled ==
    get_field(h_in, 35) = "D"
    => /\ get_field(h_out, 35) = "8"
       /\ get_field(h_out, 55) = get_field(h_in, 55)
       /\ get_field(h_out, 54) = get_field(h_in, 54)
       /\ get_field(h_out, 38) = get_field(h_in, 38)
       /\ get_field(h_out, 39) = "2"

\* ------------------------------------------------------------------------
\* Properties of the codec
\* ------------------------------------------------------------------------
\* A value that is not empty and holds neither the delimiter nor '='
PlainValue(v) == v # "" /\ Find(v, SOH) = 0 /\ Find(v, "=") = 0

\* C13: for a message whose values are non-empty and free of the delimiter and
\* of '=', parse(to_string(m)) has exactly the tag/value pairs of m.
C13_RoundTrip ==
    (c_op = "encode_decode" /\ \A t \in DOMAIN c_msg : PlainValue(c_msg[t]))
    => c_parsed = c_msg

\* A message of three such fields, one under a negative tag, iterated in
\* another order than the ascending one, has come back from the round trip
C13_Witness ==
    /\ c_op = "encode_decode"
    /\ DOMAIN c_msg = {-7, 35, 112}
    /\ \A t \in DOMAIN c_msg : PlainValue(c_msg[t])
    /\ c_order[1] = 112
    /\ c_msg[35] # c_msg[112]
    /\ c_parsed = c_msg

\* A tag substring made of digits only
PurelyNumeric(str) ==
    str # "" /\ \A i \in 1..Len(str) : IsDigit(CharAt(str, i))

\* A field with the separator and a purely numeric tag before it
WellFormed(seg) ==
    Find(seg, "=") # 0 /\ PurelyNumeric(SubSeq(seg, 1, Find(seg, "=") - 1))

FieldTag(seg) == DigitsValue(SubSeq(seg, 1, Find(seg, "=") - 1), 0)

FieldValue(seg) == SubSeq(seg, Find(seg, "=") + 1, Len(seg))

\* C14: parse keeps exactly the well-formed fields of its input, those with
\* the separator and a purely numeric tag (the last one of a tag wins), and
\* skips every other field.
C14_DecodeTolerance ==
    c_op = "decode"
    => LET segs == Segments(c_wire)
           wf == {i \in 1..Len(segs) : WellFormed(segs[i])}
       IN  /\ DOMAIN c_parsed = {FieldTag(segs[i]) : i \in wf}
           /\ \A i \in wf :
                (\A j \in wf : j > i => FieldTag(segs[j]) # FieldTag(segs[i]))
                => c_parsed[FieldTag(segs[i])] = FieldValue(segs[i])

\* The keys in ascending order
Ascending(keys) ==
    CHOOSE q \in IterationOrders(keys) :
        \A i, j \in 1..Cardinality(keys) : i < j => q[i] < q[j]

\* C15: to_string gives one tag=value<SOH> segment per field, the segments in
\* ascending tag order; the empty message gives the empty string.
C15_AscendingEncode ==
    c_op = "encode_decode" => c_wire = to_string(c_msg, Ascending(DOMAIN c_msg))

\* ------------------------------------------------------------------------
\* Properties of the PnL tracker
\* ------------------------------------------------------------------------
\* C18: on_fill with qty <= 0 changes neither position nor cash; with qty > 0
\* a buy adds qty to the position and takes qty * price from the cash, a sell
\* does the reverse.
C18_OnFill ==
    [][fills' = fills + 1
       => LET f == last_fill'
          IN  IF f.qty <= 0
              THEN position_' = position_ /\ cash_' = cash_
              ELSE /\ f.side = "1" => /\ position_' = position_ + f.qty
                                      /\ cash_' = cash_ - f.qty * f.price
                   /\ f.side = "2" => /\ position_' = position_ - f.qty
                                      /\ cash_' = cash_ + f.qty * f.price]_vars

\* A buy of a negative quantity has just been ignored by a tracker that
\* holds a position
C18_Witness ==
    /\ last_fill.side = "1"
    /\ last_fill.qty < 0
    /\ position_ # 0
    /\ cash_ # 0

\* ------------------------------------------------------------------------
\* Further properties of the order book
\* ------------------------------------------------------------------------
\* C19: add_order of a Buy order adds its quantity to the bid level at its
\* price and changes no other bid level and no ask level, and symmetrically
\* for a Sell order, also when the order crosses the opposite best price.
C19_NoMatchingOnAdd ==
    [][(last_op'.op = "add" /\ ops' = ops + 1)
       => LET o == order_index'[last_op'.id]
          IN  IF o.side = "Buy"
              THEN /\ asks' = asks
                   /\ LevelPrices(bids') = LevelPrices(bids) \cup {o.price}
                   /\ \A p \in Prices :
                        LevelQty(bids', p) = LevelQty(bids, p)
                            + (IF p = o.price THEN o.quantity ELSE 0)
              ELSE /\ bids' = bids
                   /\ LevelPrices(asks') = LevelPrices(asks) \cup {o.price}
                   /\ \A p \in Prices :
                        LevelQty(asks', p) = LevelQty(asks, p)
                            + (IF p = o.price THEN o.quantity ELSE 0)]_vars

\* A crossed book: a Buy order added above the resting Sell order, both
\* levels holding their order's full quantity
C19_Witness ==
    /\ ops = 2
    /\ last_op.op = "add"
    /\ Len(bids) = 1
    /\ Len(asks) = 1
    /\ order_index[last_op.id].side = "Buy"
    /\ get_best_bid(bids) > get_best_ask(asks)
    /\ bids[1].qty = order_index[last_op.id].quantity
    /\ asks[1].qty \in Qtys

\* C20: levels are never pruned: cancel_order leaves both best quotes as they
\* were, also when it empties the best level, and a side that holds a level
\* never reports the sentinel 0 again.
C20_LevelsNeverPruned ==
    [][/\ (last_op'.op = "cancel" /\ ops' = ops + 1)
          => /\ get_best_bid(bids') = get_best_bid(bids)
             /\ get_best_ask(asks') = get_best_ask(asks)
       /\ Len(bids) > 0 => get_best_bid(bids') # 0
       /\ Len(asks) > 0 => get_best_ask(asks') # 0]_vars

\* The only order at the best bid has just been cancelled: the best level
\* holds zero and a populated level lies below it
C20_Witness ==
    /\ last_op.op = "cancel"
    /\ last_op.found
    /\ Len(bids) >= 2
    /\ bids[1].qty = 0
    /\ bids[2].qty > 0
    /\ get_best_bid(bids) = bids[1].price

\* C12: a datagram whose field 35 is absent or is none of "0", "1", "A", "D"
\* gets the empty message from handle_message, and the run loop, handling it,
\* sends nothing, raises no fault and goes on to the sleep that ends the
\* iteration.
C12_UnknownTypeIgnored ==
    [][(/\ pc = "handle"
        /\ pc' # "handle"
        /\ rx_data # ""
        /\ get_field(parse(rx_data), 35) \notin KnownTypes)
       => (/\ handle_message(parse(rx_data)) = EmptyMsg
           /\ last_send'.by = "none"
           /\ pc' = "sleep"
           /\ io_failed' = io_failed)]_vars

C12_Witness ==
    /\ pc = "sleep"
    /\ rx_data = "35=Z|"
    /\ last_send = NoSend
    /\ ~ io_failed

\* C16: the loop is left by a fault exactly when a send or a receive failed;
\* after the fault nothing of the loop happens any more (no evaluation, no
\* receive, no send, no new iteration); the loop returns only from its
\* condition with running false; and handling a datagram, whatever its
\* content, goes on to the sleep unless sending the response failed.
C16_TransportFaultEndsLoop ==
    [][/\ (pc' = "fault") <=> io_failed'
       /\ pc = "fault" => UNCHANGED <<pc, stratVars, sys_price, rx_data, iter, last_send>>
       /\ (pc' = "returned" /\ pc # "returned") => (pc = "top" /\ ~ running)
       /\ (pc = "handle" /\ pc' # "handle" /\ last_send'.ok) => pc' = "sleep"]_vars

C16_Witness ==
    /\ pc = "fault"
    /\ io_failed
    /\ last_send = [by |-> "response", ok |-> FALSE]
    /\ rx_data = "35=A|"

====
